---------------------------- MODULE Spec2Model ----------------------------
(***************************************************************************)
(* Wildcard ("glob") matcher of src/glob.cpp.                              *)
(*                                                                         *)
(* Characters are code units of CharT = char (glob_me, line 154), written  *)
(* as their unsigned values 0 .. 2^CharBits - 1.  Sequences are 1-based:   *)
(* an iterator is an index, and the end iterator of a sequence s is        *)
(* Len(s) + 1.                                                             *)
(***************************************************************************)
EXTENDS Integers, Sequences, FiniteSets, TLC

VARIABLES pattern, subject, CaseSensitive, stack, retval, phase

vars == <<pattern, subject, CaseSensitive, stack, retval, phase>>

---------------------------------------------------------------------------
(* Bounds of the model. *)

MaxPatternLen == 3
MaxSubjectLen == 3
RunPatternLen == 3
RunSubjectLen == 2

(* Character constants of the source. *)

CharBits == 8
Star == 42       \* '*'
QMark == 63      \* '?'
Dot == 46        \* '.'
UpperA == 65     \* 'A'
LowerA == 97     \* 'a'
LowerZ == 122    \* 'z'
At == 64         \* '@'

Char == 0 .. (2 ^ CharBits - 1)

(* The characters the sequences of the matcher runs are drawn from:        *)
(* a letter in both cases, the two metacharacters, and the dot.            *)
Alphabet == {LowerA, UpperA, Star, QMark, Dot}

SeqsUpTo(A, n) == UNION {[1 .. k -> A] : k \in 0 .. n}

Range(s) == {s[k] : k \in 1 .. Len(s)}

---------------------------------------------------------------------------
(* Character classifier, lines 6-19. *)

RECURSIVE BitOr(_, _)
BitOr(a, b) ==
    IF a = 0 THEN b
    ELSE IF b = 0 THEN a
    ELSE (IF a % 2 = 1 \/ b % 2 = 1 THEN 1 ELSE 0) + 2 * BitOr(a \div 2, b \div 2)

lowercase_bit == LowerA - UpperA

to_lower(c) == BitOr(c, lowercase_bit)

is_alpha(in) ==
    LET c == to_lower(in) % (2 ^ CharBits)
    IN  (c >= LowerA) /\ (c <= LowerZ)

(* Mutants of the comparator: `?` accepting every character, `.` too; and  *)
(* the case fold applied without the alphabetic test.                      *)

wildcard_comparator_AnyChar(cs, p, s) ==
    IF p = QMark
    THEN TRUE
    ELSE IF cs
         THEN p = s
         ELSE p = s \/ (is_alpha(p) /\ is_alpha(s) /\ to_lower(p) = to_lower(s))

wildcard_comparator_Ungated(cs, p, s) ==
    IF p = QMark
    THEN s # Dot
    ELSE IF cs
         THEN p = s
         ELSE p = s \/ to_lower(p) = to_lower(s)

(* Character comparator, lines 38-53. *)

wildcard_comparator(cs, p, s) ==
    IF p = QMark
    THEN s # Dot
    ELSE IF cs
         THEN p = s
         ELSE p = s \/ (is_alpha(p) /\ is_alpha(s) /\ to_lower(p) = to_lower(s))

(* std::mismatch with a predicate, as called on line 63: the first pair of *)
(* positions at which a range ends or the predicate rejects.               *)

RECURSIVE mismatch(_, _, _, _, _)
mismatch(cs, pat, sub, pit, sit) ==
    IF pit <= Len(pat) /\ sit <= Len(sub) /\ wildcard_comparator(cs, pat[pit], sub[sit])
    THEN mismatch(cs, pat, sub, pit + 1, sit + 1)
    ELSE <<pit, sit>>

(* Mutant of glob: success as soon as the pattern is exhausted, without    *)
(* the test that the subject is exhausted too.                             *)

RECURSIVE glob_PrefixMatch(_, _, _, _, _)
glob_PrefixMatch(cs, pat, sub, pit0, sit0) ==
    LET m == mismatch(cs, pat, sub, pit0, sit0)
        pit == m[1]
        sit == m[2]
    IN  IF pit = Len(pat) + 1 THEN TRUE
        ELSE IF pat[pit] # Star THEN FALSE
        ELSE IF glob_PrefixMatch(cs, pat, sub, pit + 1, sit) THEN TRUE
        ELSE IF sit = Len(sub) + 1 THEN FALSE
        ELSE glob_PrefixMatch(cs, pat, sub, pit, sit + 1)

(* glob on iterators, lines 56-92.  One evaluation is one iteration of the *)
(* for (;;) loop; the last branch is the next iteration.                   *)

RECURSIVE glob(_, _, _, _, _)
glob(cs, pat, sub, pit0, sit0) ==
    LET m == mismatch(cs, pat, sub, pit0, sit0)
        pit == m[1]
        sit == m[2]
    IN  IF pit = Len(pat) + 1 THEN sit = Len(sub) + 1
        ELSE IF pat[pit] # Star THEN FALSE
        ELSE IF glob(cs, pat, sub, pit + 1, sit) THEN TRUE
        ELSE IF sit = Len(sub) + 1 THEN FALSE
        ELSE glob(cs, pat, sub, pit, sit + 1)

(* glob on string views, lines 95-98, and glob_me, lines 154-156. *)

glob_view(cs, pat, sub) == glob(cs, pat, sub, 1, 1)

---------------------------------------------------------------------------
(* The run of glob as a machine: one stack frame per active invocation of  *)
(* glob on iterators.  A frame holds the invocation's arguments on entry   *)
(* (pbegin, sbegin), its two moving iterators (pit, sit), its position in  *)
(* the body (pc), and the place of its latest recursive call (star, off:   *)
(* the pattern and subject positions at line 78; 0 before the first call). *)
(*   pc = "scan": inside std::mismatch, line 63                            *)
(*   pc = "test": after it, lines 66-78                                    *)
(*   pc = "call": waiting for the recursive call of line 78 to return      *)
(*   pc = "ret":  the call has returned, lines 78-90                       *)

Frame(p, s) ==
    [pbegin |-> p, sbegin |-> s, pit |-> p, sit |-> s, pc |-> "scan", star |-> 0, off |-> 0]

pend == Len(pattern) + 1
send == Len(subject) + 1

Top == stack[Len(stack)]

SetTop(f) == [stack EXCEPT ![Len(stack)] = f]

Running(pc) == phase = "run" /\ stack # <<>> /\ Top.pc = pc

Init ==
    /\ pattern \in SeqsUpTo(Alphabet, RunPatternLen)
    /\ subject \in SeqsUpTo(Alphabet, RunSubjectLen)
    /\ CaseSensitive \in BOOLEAN
    /\ stack = <<Frame(1, 1)>>
    /\ retval = FALSE
    /\ phase = "run"

(* A return statement: the frame is popped and the caller, if any, goes on *)
(* after its call.                                                         *)
Return(v) ==
    /\ retval' = v
    /\ IF Len(stack) = 1
       THEN /\ stack' = <<>>
            /\ phase' = "done"
       ELSE /\ stack' = [SubSeq(stack, 1, Len(stack) - 1)
                             EXCEPT ![Len(stack) - 1].pc = "ret"]
            /\ phase' = phase
    /\ UNCHANGED <<pattern, subject, CaseSensitive>>

(* The loop condition of std::mismatch, line 63. *)
MismatchContinues ==
    /\ Top.pit # pend
    /\ Top.sit # send
    /\ wildcard_comparator(CaseSensitive, pattern[Top.pit], subject[Top.sit])

(* std::mismatch, line 63: one more pair accepted. *)
MismatchStep ==
    /\ Running("scan")
    /\ MismatchContinues
    /\ stack' = SetTop([Top EXCEPT !.pit = @ + 1, !.sit = @ + 1])
    /\ UNCHANGED <<pattern, subject, CaseSensitive, retval, phase>>

(* std::mismatch, line 63: a range has ended or the comparator rejects. *)
MismatchStop ==
    /\ Running("scan")
    /\ ~MismatchContinues
    /\ stack' = SetTop([Top EXCEPT !.pc = "test"])
    /\ UNCHANGED <<pattern, subject, CaseSensitive, retval, phase>>

(* Lines 66-69. *)
ReturnAtPatternEnd ==
    /\ Running("test")
    /\ Top.pit = pend
    /\ Return(Top.sit = send)

(* Lines 72-74. *)
ReturnNotStar ==
    /\ Running("test")
    /\ Top.pit # pend
    /\ pattern[Top.pit] # Star
    /\ Return(FALSE)

(* Mutant of the recursive call: the pattern position is passed on as it   *)
(* is, still at the star.                                                  *)
CallRecursive_SamePattern ==
    /\ Running("test")
    /\ Top.pit # pend
    /\ pattern[Top.pit] = Star
    /\ stack' = Append(SetTop([Top EXCEPT !.pc = "call", !.star = Top.pit, !.off = Top.sit]),
                       Frame(Top.pit, Top.sit))
    /\ UNCHANGED <<pattern, subject, CaseSensitive, retval, phase>>

(* Line 78: the recursive call, on the pattern after the star. *)
CallRecursive ==
    /\ Running("test")
    /\ Top.pit # pend
    /\ pattern[Top.pit] = Star
    /\ stack' = Append(SetTop([Top EXCEPT !.pc = "call", !.star = Top.pit, !.off = Top.sit]),
                       Frame(Top.pit + 1, Top.sit))
    /\ UNCHANGED <<pattern, subject, CaseSensitive, retval, phase>>

(* Lines 78-81. *)
ReturnCallSucceeded ==
    /\ Running("ret")
    /\ retval
    /\ Return(TRUE)

(* Lines 84-86. *)
ReturnAtSubjectEnd ==
    /\ Running("ret")
    /\ ~retval
    /\ Top.sit = send
    /\ Return(FALSE)

(* Mutant of the retry: the loop goes round without advancing the subject. *)
NextSubjectChar_NoAdvance ==
    /\ Running("ret")
    /\ ~retval
    /\ Top.sit # send
    /\ stack' = SetTop([Top EXCEPT !.pc = "scan"])
    /\ UNCHANGED <<pattern, subject, CaseSensitive, retval, phase>>

(* Line 90 and the loop back to line 63. *)
NextSubjectChar ==
    /\ Running("ret")
    /\ ~retval
    /\ Top.sit # send
    /\ stack' = SetTop([Top EXCEPT !.sit = @ + 1, !.pc = "scan"])
    /\ UNCHANGED <<pattern, subject, CaseSensitive, retval, phase>>

Next ==
    \/ MismatchStep
    \/ MismatchStop
    \/ ReturnAtPatternEnd
    \/ ReturnNotStar
    \/ CallRecursive
    \/ ReturnCallSucceeded
    \/ ReturnAtSubjectEnd
    \/ NextSubjectChar

Spec == Init /\ [][Next]_vars

(* The runs checked for termination: the same machine on sequences of one  *)
(* literal, the two metacharacters and the dot.  glob is one sequential    *)
(* computation: it takes its next step while it has one.                   *)
FairAlphabet == {LowerA, Star, QMark, Dot}

FairInit ==
    /\ Init
    /\ Range(pattern) \subseteq FairAlphabet
    /\ Range(subject) \subseteq FairAlphabet

FairSpec == FairInit /\ [][Next]_vars /\ WF_vars(Next)

Done == phase = "done"

Terminates == <>Done

(* The machine and the operator compute the same result. *)
MachineAgreesWithOperator ==
    Done => retval = glob_view(CaseSensitive, pattern, subject)

---------------------------------------------------------------------------
(* The two pure entry points, each applied once to inputs drawn by the     *)
(* initial state: glob_me on a pattern and a subject, and the comparator   *)
(* on one pattern character and one subject character.                     *)

EvalInit ==
    /\ \/ /\ pattern \in SeqsUpTo(Alphabet, MaxPatternLen)
          /\ subject \in SeqsUpTo(Alphabet, MaxSubjectLen)
          /\ phase = "input"
       \/ /\ pattern \in [1 .. 1 -> Char]
          /\ subject \in [1 .. 1 -> Char]
          /\ phase = "chars"
    /\ CaseSensitive \in BOOLEAN
    /\ stack = <<>>
    /\ retval = FALSE

(* glob_me, lines 154-156 (with CaseSensitive also case_sensitive, as the  *)
(* template allows). *)
glob_me ==
    /\ phase = "input"
    /\ retval' = glob_view(CaseSensitive, pattern, subject)
    /\ phase' = "output"
    /\ UNCHANGED <<pattern, subject, CaseSensitive, stack>>

(* wildcard_comparator<CaseSensitive>{}(pattern, subject), lines 40-52. *)
Compare ==
    /\ phase = "chars"
    /\ retval' = wildcard_comparator(CaseSensitive, pattern[1], subject[1])
    /\ phase' = "compared"
    /\ UNCHANGED <<pattern, subject, CaseSensitive, stack>>

EvalNext ==
    \/ glob_me
    \/ Compare

EvalSpec == EvalInit /\ [][EvalNext]_vars

---------------------------------------------------------------------------
(* The reference semantics the claims speak of, defined without the code:  *)
(* a pattern `*` stands for zero or more arbitrary subject characters, a   *)
(* pattern `?` for one subject character other than `.`, any other pattern *)
(* character for one subject character equal to it under the case mode.    *)

RefUpper == UpperA .. (UpperA + 25)
RefLetters == RefUpper \cup {c + (LowerA - UpperA) : c \in RefUpper}
RefLower(c) == IF c \in RefUpper THEN c + (LowerA - UpperA) ELSE c

RefLiteralEq(cs, p, s) ==
    IF cs THEN p = s
    ELSE p = s \/ (p \in RefLetters /\ s \in RefLetters /\ RefLower(p) = RefLower(s))

RefCharEq(cs, p, s) == IF p = QMark THEN s # Dot ELSE RefLiteralEq(cs, p, s)

RECURSIVE RefMatchFrom(_, _, _, _, _)
RefMatchFrom(cs, pat, sub, i, j) ==
    IF i > Len(pat) THEN j > Len(sub)
    ELSE IF pat[i] = Star
         THEN RefMatchFrom(cs, pat, sub, i + 1, j)
              \/ (j <= Len(sub) /\ RefMatchFrom(cs, pat, sub, i, j + 1))
         ELSE /\ j <= Len(sub)
              /\ RefCharEq(cs, pat[i], sub[j])
              /\ RefMatchFrom(cs, pat, sub, i + 1, j + 1)

RefMatch(cs, pat, sub) == RefMatchFrom(cs, pat, sub, 1, 1)

Front(s) == SubSeq(s, 1, Len(s) - 1)

(* pat with every run of consecutive `*` replaced by a single `*`. *)
RECURSIVE Collapse(_)
Collapse(pat) ==
    IF Len(pat) < 2 THEN pat
    ELSE IF pat[1] = Star /\ pat[2] = Star THEN Collapse(Tail(pat))
    ELSE <<pat[1]>> \o Collapse(Tail(pat))

StarCount(pat) == Cardinality({k \in 1 .. Len(pat) : pat[k] = Star})

---------------------------------------------------------------------------
(* Properties of glob_me and of the comparator, under EvalSpec.            *)

NoStarIn(s) == Star \notin Range(s)

(* C1: for every pattern, every subject (also one that holds `*` or `?`)   *)
(* and both case modes, glob returns true iff the whole subject is matched *)
(* by the whole pattern under the reference semantics.                     *)
C1_GlobIsReferenceMatch ==
    phase = "output" => (retval <=> RefMatch(CaseSensitive, pattern, subject))

(* C2: if the pattern is P followed by `*` and P matches some prefix of    *)
(* the subject in full, glob returns true, whatever follows the prefix.    *)
C2_TrailingStarAbsorbs ==
    (/\ phase = "output"
     /\ pattern # <<>>
     /\ pattern[Len(pattern)] = Star
     /\ \E k \in 0 .. Len(subject) :
           RefMatch(CaseSensitive, Front(pattern), SubSeq(subject, 1, k)))
    => retval

(* C3: adjacent `*` collapse to one: glob gives the same result on the     *)
(* pattern and on the pattern with every run of `*` replaced by one `*`.   *)
C3_AdjacentStarsCollapse ==
    phase = "output"
    => (retval <=> glob_view(CaseSensitive, Collapse(pattern), subject))

(* C5: the comparator called with pattern character `?` accepts a subject  *)
(* character iff it is not `.`; and on a pattern of n `?` glob returns     *)
(* true iff the subject has exactly n characters, none of them `.`.        *)
C5_QuestionMark ==
    /\ (phase = "compared" /\ pattern[1] = QMark)
       => (retval <=> subject[1] # Dot)
    /\ (phase = "output" /\ Range(pattern) \subseteq {QMark})
       => (retval <=> (Len(subject) = Len(pattern) /\ Dot \notin Range(subject)))

C5_Witness ==
    /\ phase = "output"
    /\ Len(pattern) = 2
    /\ Range(pattern) = {QMark}
    /\ Len(subject) = 2
    /\ subject[2] = Dot
    /\ ~retval

(* C6: for a pattern character other than `?`, the case-sensitive          *)
(* comparator accepts iff the two characters are equal, and the            *)
(* case-insensitive one iff they are equal or both are ASCII letters with  *)
(* equal lowercase forms; non-letters that differ only in the fold bit     *)
(* never match.                                                            *)
C6_LiteralComparison ==
    (phase = "compared" /\ pattern[1] # QMark)
    => (retval <=> RefLiteralEq(CaseSensitive, pattern[1], subject[1]))

C6_Witness ==
    /\ phase = "compared"
    /\ ~CaseSensitive
    /\ pattern[1] = At
    /\ subject[1] = At + (LowerA - UpperA)
    /\ ~retval

(* C10: for every pattern and every subject that holds no `*`, in both     *)
(* case modes, glob returns the reference result.                          *)
C10_SoundAndCompleteWithoutSubjectStar ==
    (phase = "output" /\ NoStarIn(subject))
    => (retval <=> RefMatch(CaseSensitive, pattern, subject))

C10_Witness ==
    /\ phase = "output"
    /\ ~CaseSensitive
    /\ pattern = <<Star, QMark, LowerA>>
    /\ subject = <<Dot, QMark, UpperA>>
    /\ retval

(* With a subject that holds no `*`, C2 and C3 hold: they fail only where  *)
(* the scan consumes a pattern `*` (C7).                                   *)
TrailingStarAbsorbsWithoutSubjectStar == NoStarIn(subject) => C2_TrailingStarAbsorbs

AdjacentStarsCollapseWithoutSubjectStar == NoStarIn(subject) => C3_AdjacentStarsCollapse

---------------------------------------------------------------------------
(* Properties of the run of glob, under Spec and FairSpec.                 *)

Frames == {stack[k] : k \in 1 .. Len(stack)}

IteratorsInRange ==
    \A f \in Frames : f.pit \in 1 .. pend /\ f.sit \in 1 .. send

(* C4: every run of glob, with its nested calls and loop iterations,       *)
(* reaches a return of the top-level call with a boolean result, and on    *)
(* the way no iterator leaves its range.                                   *)
C4_Terminates == []IteratorsInRange /\ <>Done

C4_Witness ==
    /\ Done
    /\ pattern # <<>>
    /\ Range(pattern) \subseteq {Star, QMark}
    /\ StarCount(pattern) >= 2
    /\ Star \in Range(subject)
    /\ QMark \in Range(subject)

(* C7: the lock-step scan never consumes a pattern `*`: the pattern        *)
(* positions an invocation has advanced over hold no `*`.                  *)
C7_ScanNeverConsumesStar ==
    \A f \in Frames : \A i \in f.pbegin .. (f.pit - 1) : pattern[i] # Star

(* C8: once an invocation has made an attempt at a `*`, its pattern        *)
(* position stays at that `*`, the attempt is given the pattern after the  *)
(* `*` and the subject at the current offset, and the next attempt is at   *)
(* the offset one greater than that of the failed one.                     *)
C8_LazyRetry ==
    \A k \in 1 .. Len(stack) :
        LET f == stack[k]
        IN  f.star # 0 =>
              /\ f.pit = f.star
              /\ pattern[f.star] = Star
              /\ f.pc \in {"call", "ret"} => f.sit = f.off
              /\ f.pc \in {"scan", "test"} => f.sit = f.off + 1
              /\ f.pc = "call" =>
                    /\ k < Len(stack)
                    /\ stack[k + 1].pbegin = f.star + 1
                    /\ stack[k + 1].sbegin = f.off

(* C9: the number of nested invocations below the top-level call is at     *)
(* most the number of `*` in the pattern, and each nested invocation is    *)
(* given a pattern range that starts right after the `*` its caller is at. *)
C9_DepthBoundedByStars ==
    /\ Len(stack) - 1 <= StarCount(pattern)
    /\ \A k \in 2 .. Len(stack) :
          /\ stack[k - 1].pc = "call"
          /\ pattern[stack[k - 1].pit] = Star
          /\ stack[k].pbegin = stack[k - 1].pit + 1
          /\ stack[k].pit >= stack[k].pbegin

C9_Witness ==
    /\ StarCount(pattern) >= 2
    /\ Len(stack) - 1 = StarCount(pattern)

(* With a subject that holds no `*`, C7 and C8 hold. *)
ScanNeverConsumesStarWithoutSubjectStar == NoStarIn(subject) => C7_ScanNeverConsumesStar

LazyRetryWithoutSubjectStar == NoStarIn(subject) => C8_LazyRetry

===========================================================================
